---- MODULE Spec2Model ----
(***************************************************************************)
(* Resource resolution of the tensorboard log uploader                     *)
(* (google/cloud/aiplatform/tensorboard/uploader_utils.py).                *)
(*                                                                         *)
(* OnePlatformResourceManager maps run names to run resource names and     *)
(* (run, tag) pairs to time series resource names; TimeSeriesResource-     *)
(* Manager maps tags of one fixed run to time series protos.  Both create  *)
(* the resource on a cache miss and fall back to a list call when the      *)
(* service answers InvalidArgument "... already exist ...".                *)
(*                                                                         *)
(* The tensorboard service is an external collaborator: every response of  *)
(* create_tensorboard_run, list_tensorboard_runs,                          *)
(* create_tensorboard_time_series and list_tensorboard_time_series is a    *)
(* nondeterministic choice among the answers the API can give.  A thread   *)
(* takes one step per remote response; the code between two remote calls   *)
(* is part of the step.                                                    *)
(***************************************************************************)
EXTENDS Integers, Sequences, FiniteSets, TLC

\* ------------------------------------------------------------------ bounds
\* Number of resolve calls a caller issues on one manager instance.
MaxCalls == 3

\* Caller-supplied logical names.
RunNames == {"r1", "r2"}
TagNames == {"loss", "a\"\\"}
\* Resource names (identifiers) the service assigns.
RunIds == {"runs/1", "runs/2"}
TimeSeriesIds == {"ts/1", "ts/2", "ts/3"}
\* Threads that may call into one manager instance.
Workers == {"w1", "w2"}
MainThread == "w1"

\* ------------------------------------------------------- values and protos
\* The default value of a proto string field: a draft has no resource name.
NoName == ""

\* Python's None, for the local variable time_series.
None == [name |-> "None", display_name |-> "None"]

\* tensorboard_run.TensorboardRun() with display_name set.
RunDraft(run_name) == [name |-> NoName, display_name |-> run_name]

\* time_series_resource_creator() with display_name set.
TimeSeriesDraft(tag_name) == [name |-> NoName, display_name |-> tag_name]

\* The parent of the runs of a OnePlatformResourceManager.
experiment_resource_name == "experiments/e"

\* The parent of the time series of a TimeSeriesResourceManager.
run_resource_id == "runs/0"

\* Messages of google.api_core exceptions the service answers with.
AlreadyExistsMessage == "TensorboardRun or TimeSeries already exists"
InvalidMessage == "display_name is invalid"
DeniedMessage == "permission denied"

\* Variant: the message is not looked at, any InvalidArgument counts as the
\* name-conflict signal.
AlreadyExistIn_any(message) == TRUE

\* Variant: no message counts as the name-conflict signal.
AlreadyExistIn_never(message) == FALSE

\* "already exist" in e.message
AlreadyExistIn(message) == message = AlreadyExistsMessage

InvalidArgumentConflict == [type |-> "InvalidArgument", message |-> AlreadyExistsMessage]
InvalidArgumentOther == [type |-> "InvalidArgument", message |-> InvalidMessage]
PermissionDenied == [type |-> "PermissionDenied", message |-> DeniedMessage]

\* What a create call can raise.
ApiExceptions == {InvalidArgumentConflict, InvalidArgumentOther, PermissionDenied}

\* What a list call can raise: it names no resource to create, so the
\* service has no name conflict to report.
ListExceptions == {InvalidArgumentOther, PermissionDenied}

NoException == [type |-> "none", message |-> ""]

\* Sequences over S of length at most n.
SeqUpTo(S, n) == UNION {[1..k -> S] : k \in 0..n}

\* What a list call can answer with: resources of S, each resource name at
\* most once.
Pages(S) ==
    {p \in SeqUpTo(S, Cardinality({r.name : r \in S})) :
        \A i, j \in 1..Len(p) : i /= j => p[i].name /= p[j].name}

\* Runs the service can list under the experiment.
RunResources == [name : RunIds, display_name : RunNames]

\* str(tag_name): the characters of a name.
Str(name) ==
    CASE name = "r1" -> <<"r", "1">>
      [] name = "r2" -> <<"r", "2">>
      [] name = "loss" -> <<"l", "o", "s", "s">>
      [] name = "a\"\\" -> <<"a", "\"", "\\">>

\* What json.dumps writes for the characters of a string: a quotation mark
\* and a reverse solidus each get a reverse solidus in front.
RECURSIVE Escape(_)
Escape(chars) ==
    IF chars = <<>> THEN <<>>
    ELSE IF Head(chars) \in {"\"", "\\"}
    THEN <<"\\", Head(chars)>> \o Escape(Tail(chars))
    ELSE <<Head(chars)>> \o Escape(Tail(chars))

\* json.dumps(str(tag_name)): the tag as a JSON string literal.
JsonDumps(chars) == <<"\"">> \o Escape(chars) \o <<"\"">>

\* filter="display_name = {}".format(json.dumps(str(tag_name)))
DisplayNameFilter(tag_name) == <<"display_name", "=">> \o JsonDumps(Str(tag_name))

\* The characters a string literal of a filter stands for, as the service
\* reads it: the character after a reverse solidus is taken as it is.  A
\* literal that is not well formed stands for no string.
NoString == <<"no string">>
RECURSIVE Unescape(_)
Unescape(body) ==
    IF body = <<>> THEN <<>>
    ELSE IF Head(body) = "\""
    THEN NoString
    ELSE IF Head(body) = "\\"
    THEN IF Len(body) < 2 THEN NoString
         ELSE LET rest == Unescape(SubSeq(body, 3, Len(body)))
              IN  IF rest = NoString THEN NoString ELSE <<body[2]>> \o rest
    ELSE LET rest == Unescape(Tail(body))
         IN  IF rest = NoString THEN NoString ELSE <<Head(body)>> \o rest

\* Time series the service lists for a filter: those whose display name is
\* the string the literal of the filter stands for.
TimeSeriesMatching(filter) ==
    {ts \in [name : TimeSeriesIds, display_name : TagNames] :
        /\ Len(filter) >= 4
        /\ filter[1] = "display_name" /\ filter[2] = "="
        /\ filter[3] = "\"" /\ filter[Len(filter)] = "\""
        /\ Unescape(SubSeq(filter, 4, Len(filter) - 1)) = Str(ts.display_name)}


\* ------------------------------------------------------------------- state
VARIABLES
    manager,                            \* the class the uploader instantiated
    run_name_to_run_resource_name,      \* OnePlatformResourceManager cache
    run_tag_name_to_time_series_name,   \* OnePlatformResourceManager cache
    tag_to_time_series_proto,           \* TimeSeriesResourceManager cache
    frame,                              \* per thread: position and locals
    history,                            \* first reference returned per key
    failed,                             \* keys whose latest call raised
    ncalls,                             \* resolve calls issued so far
    remote,                             \* resources the service holds
    focus,                              \* process whose manager the caches are
    stash                               \* caches of the manager out of focus

vars == <<manager, run_name_to_run_resource_name,
          run_tag_name_to_time_series_name, tag_to_time_series_proto,
          frame, history, failed, ncalls, remote, focus, stash>>

\* The empty dict {}.
EmptyDict == <<>>

\* Variant: the dict is replaced by one that holds the new item only.
DictSet_fresh(d, k, v) == [x \in {k} |-> v]

\* d[k] = v on a dict.
DictSet(d, k, v) == [x \in DOMAIN d \cup {k} |-> IF x = k THEN v ELSE d[x]]

\* The frame of a thread that is in no call.
IdleFrame ==
    [pc |-> "idle", op |-> "none", run_name |-> "", tag_name |-> "",
     tb_run |-> None, runs_pages |-> <<>>, run_resource_name |-> NoName,
     time_series |-> None, list_of_time_series |-> <<>>, num |-> 0,
     log |-> <<>>,
     status |-> "none", ret |-> NoName, error |-> NoException,
     pre_run |-> EmptyDict, pre_ts |-> EmptyDict, pre_tag |-> EmptyDict,
     retry |-> FALSE]

\* Keys of the three caches, as the history variables name them.
RunKey(run_name) == [resolver |-> "get_run_resource_name", key |-> <<run_name>>]
TimeSeriesKey(run_name, tag_name) ==
    [resolver |-> "get_time_series_resource_name", key |-> <<run_name, tag_name>>]
TagKey(tag_name) == [resolver |-> "get_or_create", key |-> <<tag_name>>]

\* The key a call resolves.
KeyOf(f) ==
    IF f.op = "get_run_resource_name" THEN RunKey(f.run_name)
    ELSE IF f.op = "get_time_series_resource_name"
    THEN TimeSeriesKey(f.run_name, f.tag_name)
    ELSE TagKey(f.tag_name)

\* The frame of a call that starts now: the caches as the call finds them,
\* and whether the latest call for the same key raised.
NewFrame(op, run_name, tag_name) ==
    LET f == [IdleFrame EXCEPT !.op = op, !.run_name = run_name,
                               !.tag_name = tag_name]
    IN  [f EXCEPT !.pre_run = run_name_to_run_resource_name,
                  !.pre_ts = run_tag_name_to_time_series_name,
                  !.pre_tag = tag_to_time_series_proto,
                  !.retry = KeyOf(f) \in failed]

\* One remote call: what the service receives, the exception it answers with
\* (NoException when it answers with a value) and, for a create that
\* succeeded, the resource it answers with (None otherwise).
Request(api, parent, display_name, filter, raised, created) ==
    [api |-> api, parent |-> parent, display_name |-> display_name,
     filter |-> filter, raised |-> raised, created |-> created]

NoFilter == <<>>

\* The call leaves with a value.
Return(f, value) == [f EXCEPT !.pc = "idle", !.status = "returned", !.ret = value]

\* The call leaves with an exception.
Raise(f, exception) ==
    [f EXCEPT !.pc = "idle", !.status = "raised", !.error = exception]

\* Variant: the caught exception is raised again where the list shows nothing.
ExistingResourceNotFoundError_reraised(message) == InvalidArgumentConflict

ExistingResourceNotFoundError(message) ==
    [type |-> "ExistingResourceNotFoundError", message |-> message]

ValueError(message) == [type |-> "ValueError", message |-> message]

\* history with the reference a call for k returned, when it is k's first.
Remember(h, k, ref) ==
    IF \E x \in h : x.k = k THEN h ELSE h \cup {[k |-> k, ref |-> ref]}

Init ==
    /\ manager \in {"OnePlatformResourceManager", "TimeSeriesResourceManager"}
    /\ run_name_to_run_resource_name = EmptyDict
    /\ run_tag_name_to_time_series_name = EmptyDict
    /\ tag_to_time_series_proto = EmptyDict
    /\ frame = [w \in Workers |-> IdleFrame]
    /\ history = {}
    /\ failed = {}
    /\ ncalls = 0
    /\ remote = {}
    /\ focus = MainThread
    /\ stash = [run |-> EmptyDict, ts |-> EmptyDict, tag |-> EmptyDict]


\* ------------------------------------------- OnePlatformResourceManager

\* Variant: the loop has no break, so tb_run ends as the last run listed.
IterateRuns_no_break(tb_run, runs_pages, run_name) ==
    IF Len(runs_pages) = 0 THEN tb_run ELSE runs_pages[Len(runs_pages)]

\* for tb_run in runs_pages: if tb_run.display_name == run_name: break
\* The value of tb_run after the loop: the first run with the display name,
\* else the last run listed, else (nothing listed) the value before the loop.
IterateRuns(tb_run, runs_pages, run_name) ==
    LET hits == {i \in 1..Len(runs_pages) : runs_pages[i].display_name = run_name}
    IN  IF Len(runs_pages) = 0 THEN tb_run
        ELSE IF hits = {} THEN runs_pages[Len(runs_pages)]
        ELSE runs_pages[CHOOSE i \in hits : \A j \in hits : i <= j]

\* Variant: whatever the list shows, the run counts as not found.
RunNotInList_always(tb_run, run_name) == TRUE

\* if tb_run.display_name != run_name: raise ExistingResourceNotFoundError
RunNotInList(tb_run, run_name) == tb_run.display_name /= run_name

\* Variant: the run is looked up in the time-series dict, whose keys are
\* pairs, so the lookup never hits.
RunCached_wrong_dict(run_name) ==
    <<run_name, run_name>> \in DOMAIN run_tag_name_to_time_series_name

\* if run_name not in self._run_name_to_run_resource_name
RunCached(run_name) == run_name \in DOMAIN run_name_to_run_resource_name

\* if (run_name, tag_name) not in self._run_tag_name_to_time_series_name
TimeSeriesCached(run_name, tag_name) ==
    <<run_name, tag_name>> \in DOMAIN run_tag_name_to_time_series_name

\* Variant: the run's display name is passed where its resource name belongs.
EnterCreateTimeSeries_run_name(f, run_resource_name) ==
    [f EXCEPT !.pc = "create_tensorboard_time_series",
              !.run_resource_name = f.run_name,
              !.time_series = TimeSeriesDraft(f.tag_name)]

\* _create_or_get_time_series is entered with the run's resource name: the
\* draft is built and create_tensorboard_time_series is called.
EnterCreateTimeSeries(f, run_resource_name) ==
    [f EXCEPT !.pc = "create_tensorboard_time_series",
              !.run_resource_name = run_resource_name,
              !.time_series = TimeSeriesDraft(f.tag_name)]

\* get_run_resource_name has its value: it returns to the caller, or to
\* get_time_series_resource_name, which goes on to the time series.
RunResolved(f, run_resource_name) ==
    IF f.op = "get_run_resource_name"
    THEN Return(f, run_resource_name)
    ELSE EnterCreateTimeSeries(f, run_resource_name)

\* Variant: get_time_series_resource_name swallows the exception of the run
\* step and goes on to the time series with no parent.
RunRaised_goes_on(w, f, exception) ==
    /\ frame' = [frame EXCEPT ![w] =
           IF f.op = "get_time_series_resource_name"
           THEN EnterCreateTimeSeries(f, NoName)
           ELSE Raise(f, exception)]
    /\ failed' = failed \cup {RunKey(f.run_name)}
    /\ UNCHANGED <<run_name_to_run_resource_name, history>>

\* _create_or_get_run_resource raised: the exception passes through
\* get_run_resource_name and, when called from there, through
\* get_time_series_resource_name.
RunRaised(w, f, exception) ==
    /\ frame' = [frame EXCEPT ![w] = Raise(f, exception)]
    /\ failed' = failed \cup {RunKey(f.run_name)}
                   \cup (IF f.op = "get_time_series_resource_name"
                         THEN {TimeSeriesKey(f.run_name, f.tag_name)} ELSE {})
    /\ UNCHANGED <<run_name_to_run_resource_name, history>>

\* Variant: the name is returned but never stored.
RunStored_not_cached(w, f, tb_run) ==
    /\ frame' = [frame EXCEPT ![w] = RunResolved(f, tb_run.name)]
    /\ history' = Remember(history, RunKey(f.run_name), tb_run.name)
    /\ failed' = failed \ {RunKey(f.run_name)}
    /\ UNCHANGED run_name_to_run_resource_name

\* _create_or_get_run_resource returned tb_run: the name is stored in the
\* cache and read back from it.
RunStored(w, f, tb_run) ==
    /\ run_name_to_run_resource_name' =
           DictSet(run_name_to_run_resource_name, f.run_name, tb_run.name)
    /\ frame' = [frame EXCEPT ![w] =
           RunResolved(f, run_name_to_run_resource_name'[f.run_name])]
    /\ history' = Remember(history, RunKey(f.run_name),
                           run_name_to_run_resource_name'[f.run_name])
    /\ failed' = failed \ {RunKey(f.run_name)}

\* get_run_resource_name(run_name), up to its return on a cache hit or to
\* the call of create_tensorboard_run on a miss.
get_run_resource_name(w, run_name) ==
    /\ manager = "OnePlatformResourceManager"
    /\ frame[w].pc = "idle"
    /\ ncalls < MaxCalls
    /\ ncalls' = ncalls + 1
    /\ LET f == NewFrame("get_run_resource_name", run_name, "")
       IN  IF RunCached(run_name)
           THEN /\ frame' = [frame EXCEPT ![w] =
                        Return(f, run_name_to_run_resource_name[run_name])]
                /\ history' = Remember(history, RunKey(run_name),
                                       run_name_to_run_resource_name[run_name])
                /\ failed' = failed \ {RunKey(run_name)}
           ELSE /\ frame' = [frame EXCEPT ![w] =
                        [f EXCEPT !.pc = "create_tensorboard_run",
                                  !.tb_run = RunDraft(run_name)]]
                /\ UNCHANGED <<history, failed>>
    /\ UNCHANGED <<manager, run_name_to_run_resource_name,
                   run_tag_name_to_time_series_name, tag_to_time_series_proto>>

\* create_tensorboard_run answers: a run with the draft's display name and a
\* service-assigned name, or an exception.
create_tensorboard_run_answers(w) ==
    /\ frame[w].pc = "create_tensorboard_run"
    /\ \/ \E id \in RunIds :
            LET created == [frame[w].tb_run EXCEPT !.name = id]
                f == [frame[w] EXCEPT
                        !.tb_run = created,
                        !.log = Append(@, Request("create_tensorboard_run",
                                    experiment_resource_name,
                                    frame[w].tb_run.display_name, NoFilter,
                                    NoException, created))]
            IN  RunStored(w, f, created)
       \/ \E e \in ApiExceptions :
            LET f == [frame[w] EXCEPT
                        !.log = Append(@, Request("create_tensorboard_run",
                                    experiment_resource_name,
                                    frame[w].tb_run.display_name, NoFilter, e, None))]
            IN  IF e.type = "InvalidArgument" /\ AlreadyExistIn(e.message)
                THEN /\ frame' = [frame EXCEPT ![w] =
                             [f EXCEPT !.pc = "list_tensorboard_runs"]]
                     /\ UNCHANGED <<run_name_to_run_resource_name, history, failed>>
                ELSE RunRaised(w, f, e)
    /\ UNCHANGED <<manager, run_tag_name_to_time_series_name,
                   tag_to_time_series_proto, ncalls>>

\* list_tensorboard_runs answers: the runs of the experiment (the request
\* carries no filter), or an exception.
list_tensorboard_runs_answers(w) ==
    /\ frame[w].pc = "list_tensorboard_runs"
    /\ \/ \E runs_pages \in Pages(RunResources) :
            LET tb_run == IterateRuns(frame[w].tb_run, runs_pages, frame[w].run_name)
                f == [frame[w] EXCEPT
                        !.runs_pages = runs_pages,
                        !.tb_run = tb_run,
                        !.log = Append(@, Request("list_tensorboard_runs",
                                    experiment_resource_name, "", NoFilter,
                                    NoException, None))]
            IN  IF RunNotInList(tb_run, frame[w].run_name)
                THEN RunRaised(w, f, ExistingResourceNotFoundError(frame[w].run_name))
                ELSE RunStored(w, f, tb_run)
       \/ \E e \in ListExceptions :
            RunRaised(w, [frame[w] EXCEPT
                        !.log = Append(@, Request("list_tensorboard_runs",
                                    experiment_resource_name, "", NoFilter, e, None))], e)
    /\ UNCHANGED <<manager, run_tag_name_to_time_series_name,
                   tag_to_time_series_proto, ncalls>>


\* for ts in list_of_time_series: num += 1; if num > 1: break; time_series = ts
\* The values of num and time_series after the loop.
IterateTimeSeries(list_of_time_series) ==
    [num |-> IF Len(list_of_time_series) > 1 THEN 2 ELSE Len(list_of_time_series),
     time_series |-> IF Len(list_of_time_series) = 0 THEN None
                     ELSE list_of_time_series[1]]

\* Variant: the test for an empty result is left out.
NotTimeSeries_never(time_series) == FALSE

\* if not time_series: None is false, and so is a proto with no field set.
NotTimeSeries(time_series) ==
    \/ time_series = None
    \/ (time_series.name = NoName /\ time_series.display_name = "")

\* Variant: the test for a second result is left out.
NotOne_never(num) == FALSE

\* if num != 1: raise ValueError
NotOne(num) == num /= 1

\* The locals of _create_or_get_run_resource are gone once the thread has
\* moved on in get_time_series_resource_name.
DropRunLocals(f) == [f EXCEPT !.tb_run = None, !.runs_pages = <<>>]

\* Variant: the draft's name is stored under the key before the outcome of
\* the protocol is known, and stays there when it raises.
TimeSeriesRaised_after_store(w, f, exception) ==
    /\ frame' = [frame EXCEPT ![w] = Raise(DropRunLocals(f), exception)]
    /\ failed' = failed \cup {TimeSeriesKey(f.run_name, f.tag_name)}
    /\ run_tag_name_to_time_series_name' =
           DictSet(run_tag_name_to_time_series_name,
                   <<f.run_name, f.tag_name>>, NoName)
    /\ UNCHANGED history

\* _create_or_get_time_series raised: the exception passes through
\* get_time_series_resource_name.
TimeSeriesRaised(w, f, exception) ==
    /\ frame' = [frame EXCEPT ![w] = Raise(DropRunLocals(f), exception)]
    /\ failed' = failed \cup {TimeSeriesKey(f.run_name, f.tag_name)}
    /\ UNCHANGED <<run_tag_name_to_time_series_name, history>>

\* Variant: the key is built as (tag_name, run_name).
TimeSeriesStored_swapped_key(w, f, time_series) ==
    LET key == <<f.tag_name, f.run_name>>
    IN  /\ run_tag_name_to_time_series_name' =
               DictSet(run_tag_name_to_time_series_name, key, time_series.name)
        /\ frame' = [frame EXCEPT ![w] =
               Return(DropRunLocals(f), run_tag_name_to_time_series_name'[key])]
        /\ history' = Remember(history, TimeSeriesKey(f.run_name, f.tag_name),
                               run_tag_name_to_time_series_name'[key])
        /\ failed' = failed \ {TimeSeriesKey(f.run_name, f.tag_name)}

\* _create_or_get_time_series returned time_series: the name is stored in
\* the cache and read back from it.
TimeSeriesStored(w, f, time_series) ==
    LET key == <<f.run_name, f.tag_name>>
    IN  /\ run_tag_name_to_time_series_name' =
               DictSet(run_tag_name_to_time_series_name, key, time_series.name)
        /\ frame' = [frame EXCEPT ![w] =
               Return(DropRunLocals(f), run_tag_name_to_time_series_name'[key])]
        /\ history' = Remember(history, TimeSeriesKey(f.run_name, f.tag_name),
                               run_tag_name_to_time_series_name'[key])
        /\ failed' = failed \ {TimeSeriesKey(f.run_name, f.tag_name)}

\* get_time_series_resource_name(run_name, tag_name, creator), up to its
\* return on a cache hit, or through get_run_resource_name(run_name) to the
\* first remote call of the miss.
get_time_series_resource_name(w, run_name, tag_name) ==
    /\ manager = "OnePlatformResourceManager"
    /\ frame[w].pc = "idle"
    /\ ncalls < MaxCalls
    /\ ncalls' = ncalls + 1
    /\ LET f == NewFrame("get_time_series_resource_name", run_name, tag_name)
       IN  IF TimeSeriesCached(run_name, tag_name)
           THEN /\ frame' = [frame EXCEPT ![w] =
                        Return(f, run_tag_name_to_time_series_name[<<run_name, tag_name>>])]
                /\ history' = Remember(history, TimeSeriesKey(run_name, tag_name),
                        run_tag_name_to_time_series_name[<<run_name, tag_name>>])
                /\ failed' = failed \ {TimeSeriesKey(run_name, tag_name)}
           ELSE IF RunCached(run_name)
           THEN /\ frame' = [frame EXCEPT ![w] =
                        RunResolved(f, run_name_to_run_resource_name[run_name])]
                /\ history' = Remember(history, RunKey(run_name),
                                       run_name_to_run_resource_name[run_name])
                /\ failed' = failed \ {RunKey(run_name)}
           ELSE /\ frame' = [frame EXCEPT ![w] =
                        [f EXCEPT !.pc = "create_tensorboard_run",
                                  !.tb_run = RunDraft(run_name)]]
                /\ UNCHANGED <<history, failed>>
    /\ UNCHANGED <<manager, run_name_to_run_resource_name,
                   run_tag_name_to_time_series_name, tag_to_time_series_proto>>

\* create_tensorboard_time_series answers _create_or_get_time_series: a time
\* series with the draft's display name and a service-assigned name, or an
\* exception.
create_tensorboard_time_series_answers(w) ==
    /\ frame[w].pc = "create_tensorboard_time_series"
    /\ frame[w].op = "get_time_series_resource_name"
    /\ \/ \E id \in TimeSeriesIds :
            LET created == [frame[w].time_series EXCEPT !.name = id]
                f == [frame[w] EXCEPT
                        !.time_series = created,
                        !.log = Append(@, Request("create_tensorboard_time_series",
                                    frame[w].run_resource_name,
                                    frame[w].time_series.display_name, NoFilter,
                                    NoException, created))]
            IN  TimeSeriesStored(w, f, created)
       \/ \E e \in ApiExceptions :
            LET f == [frame[w] EXCEPT
                        !.log = Append(@, Request("create_tensorboard_time_series",
                                    frame[w].run_resource_name,
                                    frame[w].time_series.display_name, NoFilter, e, None))]
            IN  IF e.type = "InvalidArgument" /\ AlreadyExistIn(e.message)
                THEN /\ frame' = [frame EXCEPT ![w] =
                             [DropRunLocals(f) EXCEPT
                                 !.pc = "list_tensorboard_time_series"]]
                     /\ UNCHANGED <<run_tag_name_to_time_series_name, history, failed>>
                ELSE TimeSeriesRaised(w, f, e)
    /\ UNCHANGED <<manager, run_name_to_run_resource_name,
                   tag_to_time_series_proto, ncalls>>

\* list_tensorboard_time_series answers _create_or_get_time_series: the time
\* series of the run that pass the filter, or an exception.
list_tensorboard_time_series_answers(w) ==
    /\ frame[w].pc = "list_tensorboard_time_series"
    /\ frame[w].op = "get_time_series_resource_name"
    /\ \/ \E list_of_time_series \in
                Pages(TimeSeriesMatching(DisplayNameFilter(frame[w].tag_name))) :
            LET it == IterateTimeSeries(list_of_time_series)
                f == [frame[w] EXCEPT
                        !.list_of_time_series = list_of_time_series,
                        !.num = it.num,
                        !.time_series = it.time_series,
                        !.log = Append(@, Request("list_tensorboard_time_series",
                                    frame[w].run_resource_name, "",
                                    DisplayNameFilter(frame[w].tag_name),
                                    NoException, None))]
            IN  IF NotTimeSeries(it.time_series)
                THEN TimeSeriesRaised(w, f, ExistingResourceNotFoundError(frame[w].tag_name))
                ELSE IF NotOne(it.num)
                THEN TimeSeriesRaised(w, f, ValueError(frame[w].tag_name))
                ELSE TimeSeriesStored(w, f, it.time_series)
       \/ \E e \in ListExceptions :
            TimeSeriesRaised(w, [frame[w] EXCEPT
                        !.log = Append(@, Request("list_tensorboard_time_series",
                                    frame[w].run_resource_name, "",
                                    DisplayNameFilter(frame[w].tag_name), e, None))], e)
    /\ UNCHANGED <<manager, run_name_to_run_resource_name,
                   tag_to_time_series_proto, ncalls>>

\* -------------------------------------------- TimeSeriesResourceManager

\* if tag_name in self._tag_to_time_series_proto
TagCached(tag_name) == tag_name \in DOMAIN tag_to_time_series_proto

\* Variant: a failure is remembered, the key is bound to None.
GetOrCreateRaised_cached(w, f, exception) ==
    /\ frame' = [frame EXCEPT ![w] = Raise(f, exception)]
    /\ failed' = failed \cup {TagKey(f.tag_name)}
    /\ tag_to_time_series_proto' =
           DictSet(tag_to_time_series_proto, f.tag_name, None)
    /\ UNCHANGED history

\* get_or_create raised.
GetOrCreateRaised(w, f, exception) ==
    /\ frame' = [frame EXCEPT ![w] = Raise(f, exception)]
    /\ failed' = failed \cup {TagKey(f.tag_name)}
    /\ UNCHANGED <<tag_to_time_series_proto, history>>

\* self._tag_to_time_series_proto[tag_name] = time_series; return time_series
GetOrCreateStored(w, f, time_series) ==
    /\ tag_to_time_series_proto' =
           DictSet(tag_to_time_series_proto, f.tag_name, time_series)
    /\ frame' = [frame EXCEPT ![w] = Return(f, time_series)]
    /\ history' = Remember(history, TagKey(f.tag_name), time_series)
    /\ failed' = failed \ {TagKey(f.tag_name)}

\* get_or_create(tag_name, creator), up to its return on a cache hit or to
\* the call of create_tensorboard_time_series on a miss.
get_or_create(w, tag_name) ==
    /\ manager = "TimeSeriesResourceManager"
    /\ frame[w].pc = "idle"
    /\ ncalls < MaxCalls
    /\ ncalls' = ncalls + 1
    /\ LET f == NewFrame("get_or_create", "", tag_name)
       IN  IF TagCached(tag_name)
           THEN /\ frame' = [frame EXCEPT ![w] =
                        Return(f, tag_to_time_series_proto[tag_name])]
                /\ history' = Remember(history, TagKey(tag_name),
                                       tag_to_time_series_proto[tag_name])
                /\ failed' = failed \ {TagKey(tag_name)}
           ELSE /\ frame' = [frame EXCEPT ![w] =
                        [f EXCEPT !.pc = "create_tensorboard_time_series",
                                  !.run_resource_name = run_resource_id,
                                  !.time_series = TimeSeriesDraft(tag_name)]]
                /\ UNCHANGED <<history, failed>>
    /\ UNCHANGED <<manager, run_name_to_run_resource_name,
                   run_tag_name_to_time_series_name, tag_to_time_series_proto>>

\* create_tensorboard_time_series answers get_or_create.
get_or_create_create_answers(w) ==
    /\ frame[w].pc = "create_tensorboard_time_series"
    /\ frame[w].op = "get_or_create"
    /\ \/ \E id \in TimeSeriesIds :
            LET created == [frame[w].time_series EXCEPT !.name = id]
                f == [frame[w] EXCEPT
                        !.time_series = created,
                        !.log = Append(@, Request("create_tensorboard_time_series",
                                    run_resource_id,
                                    frame[w].time_series.display_name, NoFilter,
                                    NoException, created))]
            IN  GetOrCreateStored(w, f, created)
       \/ \E e \in ApiExceptions :
            LET f == [frame[w] EXCEPT
                        !.log = Append(@, Request("create_tensorboard_time_series",
                                    run_resource_id,
                                    frame[w].time_series.display_name, NoFilter, e, None))]
            IN  IF e.type = "InvalidArgument" /\ AlreadyExistIn(e.message)
                THEN /\ frame' = [frame EXCEPT ![w] =
                             [f EXCEPT !.pc = "list_tensorboard_time_series"]]
                     /\ UNCHANGED <<tag_to_time_series_proto, history, failed>>
                ELSE GetOrCreateRaised(w, f, e)
    /\ UNCHANGED <<manager, run_name_to_run_resource_name,
                   run_tag_name_to_time_series_name, ncalls>>

\* list_tensorboard_time_series answers get_or_create.
get_or_create_list_answers(w) ==
    /\ frame[w].pc = "list_tensorboard_time_series"
    /\ frame[w].op = "get_or_create"
    /\ \/ \E list_of_time_series \in
                Pages(TimeSeriesMatching(DisplayNameFilter(frame[w].tag_name))) :
            LET it == IterateTimeSeries(list_of_time_series)
                f == [frame[w] EXCEPT
                        !.list_of_time_series = list_of_time_series,
                        !.num = it.num,
                        !.time_series = it.time_series,
                        !.log = Append(@, Request("list_tensorboard_time_series",
                                    run_resource_id, "",
                                    DisplayNameFilter(frame[w].tag_name),
                                    NoException, None))]
            IN  IF NotTimeSeries(it.time_series)
                THEN GetOrCreateRaised(w, f, ExistingResourceNotFoundError(frame[w].tag_name))
                ELSE IF NotOne(it.num)
                THEN GetOrCreateRaised(w, f, ValueError(frame[w].tag_name))
                ELSE GetOrCreateStored(w, f, it.time_series)
       \/ \E e \in ListExceptions :
            GetOrCreateRaised(w, [frame[w] EXCEPT
                        !.log = Append(@, Request("list_tensorboard_time_series",
                                    run_resource_id, "",
                                    DisplayNameFilter(frame[w].tag_name), e, None))], e)
    /\ UNCHANGED <<manager, run_name_to_run_resource_name,
                   run_tag_name_to_time_series_name, ncalls>>

\* ----------------------------------------------------------- specification

\* No thread is inside a call.
Quiescent == \A w \in Workers : frame[w].pc = "idle"

\* One caller thread uses the manager, one call after the other; the service
\* is a stub that answers as it likes and holds nothing.
Next ==
    \/ \E run_name \in RunNames :
          /\ Quiescent /\ get_run_resource_name(MainThread, run_name)
          /\ UNCHANGED <<remote, focus, stash>>
    \/ \E run_name \in RunNames, tag_name \in TagNames :
          /\ Quiescent /\ get_time_series_resource_name(MainThread, run_name, tag_name)
          /\ UNCHANGED <<remote, focus, stash>>
    \/ \E tag_name \in TagNames :
          /\ Quiescent /\ get_or_create(MainThread, tag_name)
          /\ UNCHANGED <<remote, focus, stash>>
    \/ create_tensorboard_run_answers(MainThread)
          /\ UNCHANGED <<remote, focus, stash>>
    \/ list_tensorboard_runs_answers(MainThread)
          /\ UNCHANGED <<remote, focus, stash>>
    \/ create_tensorboard_time_series_answers(MainThread)
          /\ UNCHANGED <<remote, focus, stash>>
    \/ list_tensorboard_time_series_answers(MainThread)
          /\ UNCHANGED <<remote, focus, stash>>
    \/ get_or_create_create_answers(MainThread)
          /\ UNCHANGED <<remote, focus, stash>>
    \/ get_or_create_list_answers(MainThread)
          /\ UNCHANGED <<remote, focus, stash>>

Spec == Init /\ [][Next]_vars

\* ------------------------------------------------ a service that keeps its
\* resources: display names are unique per parent, resource names are unique,
\* and a list answers with what the creates so far have left.

\* The request a thread's last remote call made.
LastRequest(f) == f.log[Len(f.log)]

\* The resources of the service under a parent that a list request shows.
Listed(parent, filter) ==
    {[name |-> r.name, display_name |-> r.display_name] :
        r \in {x \in remote :
                  /\ x.parent = parent
                  /\ filter /= NoFilter =>
                        [name |-> x.name, display_name |-> x.display_name]
                            \in TimeSeriesMatching(filter)}}

\* The create call thread w got its answer to in this step was answered by
\* the service: with the name-conflict signal when the parent has a resource
\* of the display name, else with a new resource, which the service keeps.
ServiceCreates(w) ==
    LET q == LastRequest(frame'[w])
    IN  IF \E r \in remote : r.parent = q.parent /\ r.display_name = q.display_name
        THEN /\ q.raised = InvalidArgumentConflict
             /\ remote' = remote
        ELSE /\ q.raised = NoException
             /\ q.created.name \notin {r.name : r \in remote}
             /\ remote' = remote \cup {[parent |-> q.parent, name |-> q.created.name,
                                        display_name |-> q.created.display_name]}

\* The list call thread w got its answer to in this step was answered by the
\* service: with the resources it holds under the parent, those that pass the
\* filter, in some order.
ServiceLists(w) ==
    LET f == frame'[w]
        q == LastRequest(f)
        answer == IF q.api = "list_tensorboard_runs" THEN f.runs_pages
                  ELSE f.list_of_time_series
    IN  /\ q.raised = NoException
        /\ {answer[i] : i \in 1..Len(answer)} = Listed(q.parent, q.filter)
        /\ Len(answer) = Cardinality(Listed(q.parent, q.filter))
        /\ remote' = remote

\* The threads of a pool call into one manager instance with no
\* synchronization: a thread may be anywhere in a call while another runs.
NextThreads ==
    \/ \E w \in Workers, run_name \in RunNames :
          /\ get_run_resource_name(w, run_name)
          /\ UNCHANGED <<remote, focus, stash>>
    \/ \E w \in Workers, run_name \in RunNames, tag_name \in TagNames :
          /\ get_time_series_resource_name(w, run_name, tag_name)
          /\ UNCHANGED <<remote, focus, stash>>
    \/ \E w \in Workers, tag_name \in TagNames :
          /\ get_or_create(w, tag_name)
          /\ UNCHANGED <<remote, focus, stash>>
    \/ \E w \in Workers :
          /\ create_tensorboard_run_answers(w) /\ ServiceCreates(w)
          /\ UNCHANGED <<focus, stash>>
    \/ \E w \in Workers :
          /\ list_tensorboard_runs_answers(w) /\ ServiceLists(w)
          /\ UNCHANGED <<focus, stash>>
    \/ \E w \in Workers :
          /\ create_tensorboard_time_series_answers(w) /\ ServiceCreates(w)
          /\ UNCHANGED <<focus, stash>>
    \/ \E w \in Workers :
          /\ list_tensorboard_time_series_answers(w) /\ ServiceLists(w)
          /\ UNCHANGED <<focus, stash>>
    \/ \E w \in Workers :
          /\ get_or_create_create_answers(w) /\ ServiceCreates(w)
          /\ UNCHANGED <<focus, stash>>
    \/ \E w \in Workers :
          /\ get_or_create_list_answers(w) /\ ServiceLists(w)
          /\ UNCHANGED <<focus, stash>>

SpecThreads == Init /\ [][NextThreads]_vars

\* Two processes, each with its own manager instance and one thread, use the
\* same service.  The cache variables are the dicts of the manager of the
\* process in focus; the dicts of the other manager are in stash.  Switch
\* moves the focus to the other process.
Switch ==
    /\ focus' = CHOOSE w \in Workers : w /= focus
    /\ stash' = [run |-> run_name_to_run_resource_name,
                 ts |-> run_tag_name_to_time_series_name,
                 tag |-> tag_to_time_series_proto]
    /\ run_name_to_run_resource_name' = stash.run
    /\ run_tag_name_to_time_series_name' = stash.ts
    /\ tag_to_time_series_proto' = stash.tag
    /\ UNCHANGED <<manager, frame, history, failed, ncalls, remote>>

\* The process in focus takes a step of its thread, or the focus moves.
NextProcesses ==
    \/ \E run_name \in RunNames :
          /\ get_run_resource_name(focus, run_name)
          /\ UNCHANGED <<remote, focus, stash>>
    \/ \E run_name \in RunNames, tag_name \in TagNames :
          /\ get_time_series_resource_name(focus, run_name, tag_name)
          /\ UNCHANGED <<remote, focus, stash>>
    \/ \E tag_name \in TagNames :
          /\ get_or_create(focus, tag_name)
          /\ UNCHANGED <<remote, focus, stash>>
    \/ create_tensorboard_run_answers(focus) /\ ServiceCreates(focus)
          /\ UNCHANGED <<focus, stash>>
    \/ list_tensorboard_runs_answers(focus) /\ ServiceLists(focus)
          /\ UNCHANGED <<focus, stash>>
    \/ create_tensorboard_time_series_answers(focus) /\ ServiceCreates(focus)
          /\ UNCHANGED <<focus, stash>>
    \/ list_tensorboard_time_series_answers(focus) /\ ServiceLists(focus)
          /\ UNCHANGED <<focus, stash>>
    \/ get_or_create_create_answers(focus) /\ ServiceCreates(focus)
          /\ UNCHANGED <<focus, stash>>
    \/ get_or_create_list_answers(focus) /\ ServiceLists(focus)
          /\ UNCHANGED <<focus, stash>>
    \/ Switch

SpecProcesses == Init /\ [][NextProcesses]_vars


\* ------------------------------------------------- vocabulary of the claims

\* Keys some call has returned a reference for, and that reference.
Resolved == {x.k : x \in history}
FirstRef(k) == (CHOOSE x \in history : x.k = k).ref

\* The entry of a key in the cache of its resolver, read from the three dicts.
CachedIn(run_cache, ts_cache, tag_cache, k) ==
    IF k.resolver = "get_run_resource_name" THEN k.key[1] \in DOMAIN run_cache
    ELSE IF k.resolver = "get_time_series_resource_name"
    THEN <<k.key[1], k.key[2]>> \in DOMAIN ts_cache
    ELSE k.key[1] \in DOMAIN tag_cache

EntryIn(run_cache, ts_cache, tag_cache, k) ==
    IF k.resolver = "get_run_resource_name" THEN run_cache[k.key[1]]
    ELSE IF k.resolver = "get_time_series_resource_name"
    THEN ts_cache[<<k.key[1], k.key[2]>>]
    ELSE tag_cache[k.key[1]]

Cached(k) ==
    CachedIn(run_name_to_run_resource_name, run_tag_name_to_time_series_name,
             tag_to_time_series_proto, k)

Entry(k) ==
    EntryIn(run_name_to_run_resource_name, run_tag_name_to_time_series_name,
            tag_to_time_series_proto, k)

\* The resource name an entry or a returned value stands for: get_or_create
\* stores and returns the proto, the other two the name.
NameOf(k, value) == IF k.resolver = "get_or_create" THEN value.name ELSE value

\* The remote calls of one api a call has made.
Requests(f, api) == {i \in 1..Len(f.log) : f.log[i].api = api}

RunApis == {"create_tensorboard_run", "list_tensorboard_runs"}
TimeSeriesApis == {"create_tensorboard_time_series", "list_tensorboard_time_series"}

\* The api answered with the name-conflict signal / with a value.
Conflicted(f, api) ==
    \E i \in Requests(f, api) : f.log[i].raised = InvalidArgumentConflict
Answered(f, api) == \E i \in Requests(f, api) : f.log[i].raised = NoException

\* The call is over.
Over(f) == f.pc = "idle" /\ f.status \in {"returned", "raised"}

\* _create_or_get_run_resource has run in this call and is over; its locals
\* are still in the frame.
RunLevelOver(f) ==
    /\ f.tb_run /= None
    /\ f.pc \notin RunApis
RunLevelRaised(f) == RunLevelOver(f) /\ f.status = "raised"
RunLevelReturned(f) == RunLevelOver(f) /\ f.status /= "raised"
\* What get_run_resource_name returned.
RunLevelRef(f) ==
    IF f.op = "get_run_resource_name" THEN f.ret ELSE f.run_resource_name

\* The time-series protocol has run in this call and the call is over.
TimeSeriesLevelOver(f) ==
    /\ Over(f)
    /\ \E api \in TimeSeriesApis : Requests(f, api) /= {}

\* A step of thread w that starts a call.
Starts(w) == frame[w].pc = "idle" /\ ncalls' = ncalls + 1 /\ frame'[w] /= frame[w]


\* ------------------------------------------------------------------ claims

\* C1 (memoization): once a resolve call for a key has returned, every later
\* resolve call for that key on the same instance returns the same reference
\* and makes no remote call: it is over in the step that starts it, with an
\* empty request log.  The same holds of the get_run_resource_name call made
\* inside get_time_series_resource_name: for a run resolved before, the
\* thread reaches the time-series create with the run's first reference and
\* no run request.
C1_Memoization ==
    [][\A w \in Workers :
        Starts(w) =>
            LET f == frame'[w]
                k == KeyOf(f)
            IN  /\ k \in Resolved =>
                      /\ Over(f)
                      /\ f.status = "returned"
                      /\ f.ret = FirstRef(k)
                      /\ f.log = <<>>
                /\ (/\ f.op = "get_time_series_resource_name"
                    /\ k \notin Resolved
                    /\ RunKey(f.run_name) \in Resolved) =>
                      /\ f.pc = "create_tensorboard_time_series"
                      /\ f.run_resource_name = FirstRef(RunKey(f.run_name))
                      /\ f.log = <<>>]_vars

\* A second call for a key was answered from the cache.
C1_Witness ==
    \E w \in Workers :
        /\ Over(frame[w])
        /\ frame[w].status = "returned"
        /\ frame[w].log = <<>>
        /\ ncalls >= 2
        /\ frame[w].op = "get_time_series_resource_name"


\* The one create request of an api that was answered with a resource.
CreatedBy(f, api) ==
    f.log[CHOOSE i \in Requests(f, api) : f.log[i].raised = NoException].created

\* C2 (create-success path): when the key is not cached and the create call
\* succeeds, the resolver returns the name of the resource create answered
\* with, after exactly one create request and no list request of that
\* resource level, and the key is cached with that reference.
C2_CreateSuccess ==
    \A w \in Workers :
        LET f == frame[w]
        IN  /\ (/\ RunLevelOver(f)
                /\ f.run_name \notin DOMAIN f.pre_run
                /\ Answered(f, "create_tensorboard_run")) =>
                  /\ RunLevelReturned(f)
                  /\ RunLevelRef(f) = CreatedBy(f, "create_tensorboard_run").name
                  /\ RunLevelRef(f) \in RunIds
                  /\ Cardinality(Requests(f, "create_tensorboard_run")) = 1
                  /\ Requests(f, "list_tensorboard_runs") = {}
                  /\ Cached(RunKey(f.run_name))
                  /\ Entry(RunKey(f.run_name)) = RunLevelRef(f)
            /\ (/\ TimeSeriesLevelOver(f)
                /\ ~CachedIn(f.pre_run, f.pre_ts, f.pre_tag, KeyOf(f))
                /\ Answered(f, "create_tensorboard_time_series")) =>
                  /\ f.status = "returned"
                  /\ NameOf(KeyOf(f), f.ret) =
                        CreatedBy(f, "create_tensorboard_time_series").name
                  /\ NameOf(KeyOf(f), f.ret) \in TimeSeriesIds
                  /\ Cardinality(Requests(f, "create_tensorboard_time_series")) = 1
                  /\ Requests(f, "list_tensorboard_time_series") = {}
                  /\ Cached(KeyOf(f))
                  /\ Entry(KeyOf(f)) = f.ret

\* A two-level call created both the run and the time series.
C2_Witness ==
    \E w \in Workers :
        /\ Over(frame[w])
        /\ frame[w].op = "get_time_series_resource_name"
        /\ Answered(frame[w], "create_tensorboard_run")
        /\ Answered(frame[w], "create_tensorboard_time_series")
        /\ frame[w].status = "returned"

\* The runs listed whose display name is the requested one.
RunsNamed(f) ==
    {i \in 1..Len(f.runs_pages) : f.runs_pages[i].display_name = f.run_name}

\* C3 (conflict-resolved path): when create fails with the name-conflict
\* signal and the list call that follows yields exactly one resource whose
\* display name is the requested name, the resolver returns the name of that
\* listed resource without raising and caches it under the key.
C3_ConflictResolved ==
    \A w \in Workers :
        LET f == frame[w]
        IN  /\ (/\ RunLevelOver(f)
                /\ Conflicted(f, "create_tensorboard_run")
                /\ Answered(f, "list_tensorboard_runs")
                /\ Cardinality(RunsNamed(f)) = 1) =>
                  /\ RunLevelReturned(f)
                  /\ \A i \in RunsNamed(f) : RunLevelRef(f) = f.runs_pages[i].name
                  /\ Cached(RunKey(f.run_name))
                  /\ Entry(RunKey(f.run_name)) = RunLevelRef(f)
            /\ (/\ TimeSeriesLevelOver(f)
                /\ Conflicted(f, "create_tensorboard_time_series")
                /\ Answered(f, "list_tensorboard_time_series")
                /\ Len(f.list_of_time_series) = 1
                /\ f.list_of_time_series[1].display_name = f.tag_name) =>
                  /\ f.status = "returned"
                  /\ NameOf(KeyOf(f), f.ret) = f.list_of_time_series[1].name
                  /\ Cached(KeyOf(f))
                  /\ Entry(KeyOf(f)) = f.ret

\* A run was found in second place of the list, behind a run of another name.
C3_Witness ==
    \E w \in Workers :
        /\ Over(frame[w])
        /\ frame[w].op = "get_run_resource_name"
        /\ Conflicted(frame[w], "create_tensorboard_run")
        /\ Len(frame[w].runs_pages) = 2
        /\ RunsNamed(frame[w]) = {1}
        /\ frame[w].status = "returned"
        /\ frame[w].ret = frame[w].runs_pages[1].name


\* C4 (conflict-unresolved path, runs): whenever create of a run fails with
\* the name-conflict signal and the list call yields no run whose display
\* name is the requested name, the empty list included,
\* get_run_resource_name raises ExistingResourceNotFoundError and the run
\* cache has no entry for the name afterward.
C4_RunConflictUnresolved ==
    \A w \in Workers :
        LET f == frame[w]
        IN  (/\ RunLevelOver(f)
             /\ Conflicted(f, "create_tensorboard_run")
             /\ Answered(f, "list_tensorboard_runs")
             /\ RunsNamed(f) = {}) =>
                /\ RunLevelRaised(f)
                /\ f.error.type = "ExistingResourceNotFoundError"
                /\ ~Cached(RunKey(f.run_name))

\* C5 (conflict-unresolved path, time series): whenever create of a time
\* series fails with the name-conflict signal and the filtered list call
\* yields no result, get_time_series_resource_name and get_or_create raise
\* ExistingResourceNotFoundError and the time-series cache has no entry for
\* the key afterward.
C5_TimeSeriesConflictUnresolved ==
    \A w \in Workers :
        LET f == frame[w]
        IN  (/\ TimeSeriesLevelOver(f)
             /\ Conflicted(f, "create_tensorboard_time_series")
             /\ Answered(f, "list_tensorboard_time_series")
             /\ Len(f.list_of_time_series) = 0) =>
                /\ f.status = "raised"
                /\ f.error.type = "ExistingResourceNotFoundError"
                /\ ~Cached(KeyOf(f))

\* Both time-series resolvers are covered: the two-level one here.
C5_Witness ==
    \E w \in Workers :
        /\ Over(frame[w])
        /\ frame[w].op = "get_time_series_resource_name"
        /\ Conflicted(frame[w], "create_tensorboard_time_series")
        /\ Answered(frame[w], "list_tensorboard_time_series")
        /\ Len(frame[w].list_of_time_series) = 0
        /\ frame[w].error.type = "ExistingResourceNotFoundError"

\* C6 (ambiguous path, runs): whenever create of a run fails with the
\* name-conflict signal and the list call yields two or more runs whose
\* display name is the requested name, get_run_resource_name raises the
\* ambiguous-resource error instead of returning one of them, and nothing
\* is cached for the name.
C6_RunAmbiguous ==
    \A w \in Workers :
        LET f == frame[w]
        IN  (/\ RunLevelOver(f)
             /\ Conflicted(f, "create_tensorboard_run")
             /\ Answered(f, "list_tensorboard_runs")
             /\ Cardinality(RunsNamed(f)) >= 2) =>
                /\ RunLevelRaised(f)
                /\ f.error.type = "ValueError"
                /\ ~Cached(RunKey(f.run_name))

\* C7 (ambiguous path, time series): whenever create of a time series fails
\* with the name-conflict signal and the filtered list call yields two or
\* more results, however many, get_time_series_resource_name and
\* get_or_create raise ValueError and the time-series cache has no entry
\* for the key afterward.
C7_TimeSeriesAmbiguous ==
    \A w \in Workers :
        LET f == frame[w]
        IN  (/\ TimeSeriesLevelOver(f)
             /\ Conflicted(f, "create_tensorboard_time_series")
             /\ Answered(f, "list_tensorboard_time_series")
             /\ Len(f.list_of_time_series) >= 2) =>
                /\ f.status = "raised"
                /\ f.error.type = "ValueError"
                /\ ~Cached(KeyOf(f))

\* The single-level resolver met a list of three time series.
C7_Witness ==
    \E w \in Workers :
        /\ Over(frame[w])
        /\ frame[w].op = "get_or_create"
        /\ Conflicted(frame[w], "create_tensorboard_time_series")
        /\ Len(frame[w].list_of_time_series) = 3
        /\ frame[w].error.type = "ValueError"


\* C8 as claimed (failure atomicity): a resolve call that ends in an
\* exception leaves every cache of the instance as the call found it, the
\* run cache included when the run was resolved and only the time-series
\* step failed.
C8_FailureLeavesEveryCache ==
    \A w \in Workers :
        LET f == frame[w]
        IN  (Over(f) /\ f.status = "raised") =>
                /\ run_name_to_run_resource_name = f.pre_run
                /\ run_tag_name_to_time_series_name = f.pre_ts
                /\ tag_to_time_series_proto = f.pre_tag

\* The call resolved its run by remote calls before the time-series step.
RunResolvedInCall(f) ==
    /\ f.op = "get_time_series_resource_name"
    /\ f.run_name \notin DOMAIN f.pre_run
    /\ \E api \in TimeSeriesApis : Requests(f, api) /= {}

\* C8 as amended: a resolve call that ends in an exception leaves the
\* time-series caches as the call found them and writes no entry for its own
\* key; the run cache is as the call found it, except that a
\* get_time_series_resource_name call whose run was resolved and whose
\* time-series step raised leaves that run cached, with the reference the
\* time-series requests were issued under.
C8_FailureAtomicity ==
    \A w \in Workers :
        LET f == frame[w]
        IN  (Over(f) /\ f.status = "raised") =>
                /\ run_tag_name_to_time_series_name = f.pre_ts
                /\ tag_to_time_series_proto = f.pre_tag
                /\ IF RunResolvedInCall(f)
                   THEN run_name_to_run_resource_name =
                            DictSet(f.pre_run, f.run_name, f.run_resource_name)
                   ELSE run_name_to_run_resource_name = f.pre_run

\* A two-level call created its run and then raised in the time-series step,
\* with another time series cached before.
C8_Witness ==
    \E w \in Workers :
        /\ Over(frame[w])
        /\ frame[w].status = "raised"
        /\ RunResolvedInCall(frame[w])
        /\ frame[w].error.type = "ValueError"
        /\ DOMAIN frame[w].pre_ts /= {}

\* C9 (retry after failure): after a resolve call for a key has raised, the
\* next resolve call for that key is not answered from the cache: the step
\* that starts it leaves a create request pending (the run's create request
\* when get_time_series_resource_name resolves a run whose latest call
\* raised); when that call returns,
\* its first request was a create, it made a create request with the key's
\* display name at the key's level, and the key is cached with the returned
\* reference.
C9_RetryAfterFailure ==
    [][\A w \in Workers :
        /\ (Starts(w) /\ KeyOf(frame'[w]) \in failed) =>
              /\ ~Cached(KeyOf(frame'[w]))
              /\ frame'[w].status = "none"
              /\ frame'[w].pc \in {"create_tensorboard_run",
                                   "create_tensorboard_time_series"}
        /\ (/\ Starts(w)
            /\ frame'[w].op = "get_time_series_resource_name"
            /\ frame'[w].status = "none"
            /\ RunKey(frame'[w].run_name) \in failed) =>
              /\ ~Cached(RunKey(frame'[w].run_name))
              /\ frame'[w].pc = "create_tensorboard_run"
        /\ (/\ frame[w].pc /= "idle"
            /\ KeyOf(frame[w]) \in failed
            /\ Over(frame'[w])
            /\ frame'[w].status = "returned") =>
              LET f == frame'[w]
                  k == KeyOf(f)
                  api == IF k.resolver = "get_run_resource_name"
                         THEN "create_tensorboard_run"
                         ELSE "create_tensorboard_time_series"
              IN  /\ f.log[1].api \in {"create_tensorboard_run",
                                       "create_tensorboard_time_series"}
                  /\ \E i \in Requests(f, api) :
                        f.log[i].display_name = k.key[Len(k.key)]
                  /\ CachedIn(run_name_to_run_resource_name',
                              run_tag_name_to_time_series_name',
                              tag_to_time_series_proto', k)
                  /\ EntryIn(run_name_to_run_resource_name',
                             run_tag_name_to_time_series_name',
                             tag_to_time_series_proto', k) = f.ret]_vars

\* A key whose latest call had raised was resolved, by remote calls, in the
\* third call of the caller.
C9_Witness ==
    \E w \in Workers :
        /\ Over(frame[w])
        /\ frame[w].retry
        /\ frame[w].status = "returned"
        /\ frame[w].log /= <<>>
        /\ ncalls = 3

\* C10 (referential stability of the cache): no step removes an entry of a
\* cache or binds its key to another reference; the cached keys only grow
\* and each keeps the first reference stored for it.
C10_CacheStable ==
    [][/\ \A k \in DOMAIN run_name_to_run_resource_name :
            /\ k \in DOMAIN run_name_to_run_resource_name'
            /\ run_name_to_run_resource_name'[k] = run_name_to_run_resource_name[k]
       /\ \A k \in DOMAIN run_tag_name_to_time_series_name :
            /\ k \in DOMAIN run_tag_name_to_time_series_name'
            /\ run_tag_name_to_time_series_name'[k] =
                  run_tag_name_to_time_series_name[k]
       /\ \A k \in DOMAIN tag_to_time_series_proto :
            /\ k \in DOMAIN tag_to_time_series_proto'
            /\ tag_to_time_series_proto'[k] = tag_to_time_series_proto[k]]_vars

\* Three keys are cached, after calls that wrote and calls that raised.
C10_Witness ==
    /\ Cardinality(DOMAIN run_name_to_run_resource_name) = 1
    /\ Cardinality(DOMAIN run_tag_name_to_time_series_name) = 2
    /\ ncalls = 3

\* C11 (two-level ordering): in get_time_series_resource_name on a miss for
\* (run, tag), the run is resolved before any time-series request: every run
\* request of the call precedes every time-series request, a time-series
\* request is pending or made only with the run cached and under the cached
\* reference, the last run request was answered with a value, and a call
\* whose run resolution raised has made no time-series request and has none
\* pending.
C11_TwoLevelOrdering ==
    \A w \in Workers :
        LET f == frame[w]
            run == UNION {Requests(f, api) : api \in RunApis}
            ts == UNION {Requests(f, api) : api \in TimeSeriesApis}
        IN  f.op = "get_time_series_resource_name" =>
              /\ \A i \in run, j \in ts : i < j
              /\ (f.pc \in TimeSeriesApis \/ ts /= {}) =>
                    /\ RunCached(f.run_name)
                    /\ f.run_resource_name = run_name_to_run_resource_name[f.run_name]
                    /\ \A i \in run :
                          (\A j \in run : j <= i) => f.log[i].raised = NoException
              /\ RunLevelRaised(f) => (ts = {} /\ f.pc = "idle")

\* A two-level call resolved its run by create and list and went on to the
\* time series; an earlier call raised while resolving a run.
C11_Witness ==
    \E w \in Workers :
        /\ frame[w].op = "get_time_series_resource_name"
        /\ Conflicted(frame[w], "create_tensorboard_run")
        /\ Answered(frame[w], "list_tensorboard_runs")
        /\ Requests(frame[w], "create_tensorboard_time_series") /= {}
        /\ Requests(frame[w], "list_tensorboard_time_series") /= {}
        /\ RunKey("r2") \in failed

\* C12 (two-level run reuse): on one OnePlatformResourceManager, a
\* get_time_series_resource_name call that finds its run cached (by an
\* earlier get_run_resource_name or get_time_series_resource_name call)
\* makes no run create or run list request, and every time-series request of
\* a get_time_series_resource_name call, pending ones included, has as its
\* parent the one reference the run cache holds for the run.
C12_RunReuse ==
    \A w \in Workers :
        LET f == frame[w]
        IN  f.op = "get_time_series_resource_name" =>
              /\ f.run_name \in DOMAIN f.pre_run =>
                    /\ \A api \in RunApis : Requests(f, api) = {}
                    /\ f.pc \notin RunApis
                    /\ \A api \in TimeSeriesApis : \A i \in Requests(f, api) :
                          f.log[i].parent = f.pre_run[f.run_name]
              /\ \A api \in TimeSeriesApis : \A i \in Requests(f, api) :
                    /\ RunCached(f.run_name)
                    /\ f.log[i].parent = run_name_to_run_resource_name[f.run_name]
              /\ f.pc \in TimeSeriesApis =>
                    /\ RunCached(f.run_name)
                    /\ f.run_resource_name = run_name_to_run_resource_name[f.run_name]

\* A second tag was created under a run cached before, with no run request.
C12_Witness ==
    \E w \in Workers :
        LET f == frame[w]
        IN  /\ f.op = "get_time_series_resource_name"
            /\ f.run_name \in DOMAIN f.pre_run
            /\ f.pre_run[f.run_name] \in RunIds
            /\ \E tag_name \in TagNames \ {f.tag_name} :
                  <<f.run_name, tag_name>> \in DOMAIN f.pre_ts
            /\ Answered(f, "create_tensorboard_time_series")
            /\ f.status = "returned"

\* The keys a call resolves: its own and, for the two-level resolver, the run's.
KeysOf(f) ==
    {KeyOf(f)} \cup (IF f.op = "get_time_series_resource_name"
                     THEN {RunKey(f.run_name)} ELSE {})

\* The create api of a key's resource level.
CreateApi(k) ==
    IF k.resolver = "get_run_resource_name" THEN "create_tensorboard_run"
    ELSE "create_tensorboard_time_series"

\* The call of the frame has issued a create request for the key: the request
\* is with the service, or has been answered.
IssuedCreate(f, k) ==
    /\ f.op /= "none"
    /\ k \in KeysOf(f)
    /\ \/ f.pc = CreateApi(k)
       \/ Requests(f, CreateApi(k)) /= {}

\* C13 (per-key single in-flight create): when the threads of a pool call
\* resolve for the same key, not cached yet, on one manager instance, one
\* create request is issued for the key: no two threads both issue a create
\* request for the key, whatever the interleaving.
C13_SingleInFlightCreate ==
    \A w1, w2 \in Workers :
        \A k \in KeysOf(frame[w1]) \cap KeysOf(frame[w2]) :
            (IssuedCreate(frame[w1], k) /\ IssuedCreate(frame[w2], k)) => w1 = w2

\* C14 (concurrent callers agree): when the threads of a pool resolve the
\* same key, not cached yet, on one manager instance, against a service that
\* keeps display names unique per parent and lists every resource created,
\* every call returns, no call raises, calls for the same key return the
\* same reference, which is the first reference returned for the key and the
\* name of a resource the service holds, and the cache holds it for the key.
C14_ConcurrentCallersAgree ==
    /\ \A w \in Workers :
          LET f == frame[w]
              k == KeyOf(f)
          IN  /\ f.status /= "raised"
              /\ Over(f) =>
                    /\ f.ret = FirstRef(k)
                    /\ Cached(k)
                    /\ Entry(k) = f.ret
                    /\ \E r \in remote : r.name = NameOf(k, f.ret)
    /\ \A w1, w2 \in Workers :
          (/\ Over(frame[w1]) /\ Over(frame[w2])
           /\ KeyOf(frame[w1]) = KeyOf(frame[w2])) =>
              frame[w1].ret = frame[w2].ret

\* Two threads missed the cache for the same (run, tag) key; both calls are
\* over, one of them after name conflicts at both levels.
C14_Witness ==
    \E w1, w2 \in Workers :
        /\ w1 /= w2
        /\ Over(frame[w1]) /\ Over(frame[w2])
        /\ frame[w1].op = "get_time_series_resource_name"
        /\ KeyOf(frame[w1]) = KeyOf(frame[w2])
        /\ Answered(frame[w1], "create_tensorboard_run")
        /\ Answered(frame[w1], "create_tensorboard_time_series")
        /\ Conflicted(frame[w2], "create_tensorboard_run")
        /\ Conflicted(frame[w2], "create_tensorboard_time_series")
        /\ frame[w1].ret = frame[w2].ret

\* The dicts of the manager instance of process w.
CachesOf(w) ==
    IF focus = w
    THEN [run |-> run_name_to_run_resource_name,
          ts |-> run_tag_name_to_time_series_name,
          tag |-> tag_to_time_series_proto]
    ELSE stash

\* The parent and display name of the resource a call resolves for its key:
\* runs are under the experiment, the time series of get_or_create under the
\* manager's run, those of get_time_series_resource_name under the run the
\* instance has cached for the run name.
ParentOf(f, run_cache) ==
    IF f.op = "get_run_resource_name" THEN experiment_resource_name
    ELSE IF f.op = "get_or_create" THEN run_resource_id
    ELSE run_cache[f.run_name]
DisplayNameOf(f) ==
    IF f.op = "get_run_resource_name" THEN f.run_name ELSE f.tag_name

\* C15 (cross-process race): two manager instances in two processes, with
\* empty caches at first, resolve names against a service that rejects the
\* second create of a display name under a parent and lists every resource
\* created.  Under every interleaving the service holds at most one resource
\* per parent and display name; no call raises; a call that is over has
\* returned the name of the one resource of its parent and display name, and
\* its instance has cached it; calls of the two instances for the same key
\* return the same reference.
C15_CrossProcessRace ==
    /\ \A r1, r2 \in remote :
          (r1.parent = r2.parent /\ r1.display_name = r2.display_name) => r1 = r2
    /\ \A w \in Workers :
          LET f == frame[w]
              k == KeyOf(f)
              c == CachesOf(w)
          IN  /\ f.status /= "raised"
              /\ Over(f) =>
                    /\ CachedIn(c.run, c.ts, c.tag, k)
                    /\ EntryIn(c.run, c.ts, c.tag, k) = f.ret
                    /\ f.op = "get_time_series_resource_name" =>
                          f.run_name \in DOMAIN c.run
                    /\ \E r \in remote :
                          /\ r.parent = ParentOf(f, c.run)
                          /\ r.display_name = DisplayNameOf(f)
                          /\ r.name = NameOf(k, f.ret)
    /\ \A w1, w2 \in Workers :
          (/\ Over(frame[w1]) /\ Over(frame[w2])
           /\ KeyOf(frame[w1]) = KeyOf(frame[w2])) =>
              frame[w1].ret = frame[w2].ret

\* The two instances resolved the same (run, tag) key in overlapping calls:
\* each lost one of the two create races, and both have cached the name.
C15_Witness ==
    \E w1, w2 \in Workers :
        /\ w1 /= w2
        /\ Over(frame[w1]) /\ Over(frame[w2])
        /\ frame[w1].op = "get_time_series_resource_name"
        /\ KeyOf(frame[w1]) = KeyOf(frame[w2])
        /\ frame[w1].pre_run = EmptyDict /\ frame[w2].pre_run = EmptyDict
        /\ Answered(frame[w1], "create_tensorboard_run")
        /\ Conflicted(frame[w1], "create_tensorboard_time_series")
        /\ Conflicted(frame[w2], "create_tensorboard_run")
        /\ Answered(frame[w2], "create_tensorboard_time_series")
        /\ CachesOf(w1).ts = CachesOf(w2).ts
        /\ DOMAIN CachesOf(w1).ts /= {}

\* The list request that follows the create request answered with the
\* name-conflict signal: the next request of the call, of the same level and
\* under the same parent, and the only list request of that level; the create
\* request is the only create request of that level.
OneListAfterConflict(f, create, list) ==
    /\ Cardinality(Requests(f, create)) = 1
    /\ Cardinality(Requests(f, list)) = 1
    /\ \A i \in Requests(f, create), j \in Requests(f, list) :
          /\ j = i + 1
          /\ f.log[j].parent = f.log[i].parent

\* The exception the list request of a level was answered with.
ListRaised(f, list) == {f.log[j].raised : j \in Requests(f, list)} \ {NoException}

\* C16 as claimed (name conflict is never surfaced): every create answered
\* with the name-conflict signal is followed by exactly one list request on
\* the same parent and no second create request, and the resolver then
\* returns a reference or raises ExistingResourceNotFoundError or the
\* ambiguous-resource error, nothing else.
C16_ConflictOutcomesAsClaimed ==
    \A w \in Workers :
        LET f == frame[w]
        IN  /\ (RunLevelOver(f) /\ Conflicted(f, "create_tensorboard_run")) =>
                  /\ OneListAfterConflict(f, "create_tensorboard_run",
                                          "list_tensorboard_runs")
                  /\ \/ RunLevelReturned(f)
                     \/ f.error.type \in {"ExistingResourceNotFoundError", "ValueError"}
            /\ (TimeSeriesLevelOver(f)
                   /\ Conflicted(f, "create_tensorboard_time_series")) =>
                  /\ OneListAfterConflict(f, "create_tensorboard_time_series",
                                          "list_tensorboard_time_series")
                  /\ \/ f.status = "returned"
                     \/ f.error.type \in {"ExistingResourceNotFoundError", "ValueError"}

\* C16 as amended: every create answered with the name-conflict signal is
\* followed by exactly one list request on the same parent and no second
\* create request; the resolver then returns a reference, or raises
\* ExistingResourceNotFoundError or the ambiguous-resource error, or raises
\* the exception the list request itself was answered with; it never raises
\* the name-conflict error of the create.
C16_ConflictNeverSurfaced ==
    \A w \in Workers :
        LET f == frame[w]
        IN  /\ (RunLevelOver(f) /\ Conflicted(f, "create_tensorboard_run")) =>
                  /\ OneListAfterConflict(f, "create_tensorboard_run",
                                          "list_tensorboard_runs")
                  /\ f.error /= InvalidArgumentConflict
                  /\ \/ RunLevelReturned(f) /\ Answered(f, "list_tensorboard_runs")
                     \/ /\ RunLevelRaised(f)
                        /\ Answered(f, "list_tensorboard_runs")
                        /\ f.error.type \in {"ExistingResourceNotFoundError", "ValueError"}
                     \/ /\ RunLevelRaised(f)
                        /\ ListRaised(f, "list_tensorboard_runs") = {f.error}
            /\ (TimeSeriesLevelOver(f)
                   /\ Conflicted(f, "create_tensorboard_time_series")) =>
                  /\ OneListAfterConflict(f, "create_tensorboard_time_series",
                                          "list_tensorboard_time_series")
                  /\ f.error /= InvalidArgumentConflict
                  /\ \/ f.status = "returned"
                           /\ Answered(f, "list_tensorboard_time_series")
                     \/ /\ f.status = "raised"
                        /\ Answered(f, "list_tensorboard_time_series")
                        /\ f.error.type \in {"ExistingResourceNotFoundError", "ValueError"}
                     \/ /\ f.status = "raised"
                        /\ ListRaised(f, "list_tensorboard_time_series") = {f.error}

\* After a name conflict the list request was refused, and the call raised
\* the exception of the list request.
C16_Witness ==
    \E w \in Workers :
        LET f == frame[w]
        IN  /\ TimeSeriesLevelOver(f)
            /\ f.op = "get_time_series_resource_name"
            /\ Conflicted(f, "create_tensorboard_time_series")
            /\ ListRaised(f, "list_tensorboard_time_series") = {PermissionDenied}
            /\ f.error = PermissionDenied

\* The create requests of an api answered with an exception that is not the
\* name-conflict signal.
OtherFailures(f, api) ==
    {i \in Requests(f, api) :
        f.log[i].raised \notin {NoException, InvalidArgumentConflict}}

\* C17 (other create failures propagate): when the create request of a
\* resolver is answered with an exception other than the name-conflict
\* signal (InvalidArgument with another message, or another exception), the
\* resolver raises that exception, the failed create is its last request (no
\* list request and no further create request of that level), the cache of
\* the resolver is as the call found it and has no entry for the key.
C17_OtherCreateFailuresPropagate ==
    \A w \in Workers :
        LET f == frame[w]
        IN  /\ (/\ RunLevelOver(f)
                /\ OtherFailures(f, "create_tensorboard_run") /= {}) =>
                  /\ RunLevelRaised(f)
                  /\ \A i \in OtherFailures(f, "create_tensorboard_run") :
                        /\ f.error = f.log[i].raised
                        /\ i = Len(f.log)
                  /\ Cardinality(Requests(f, "create_tensorboard_run")) = 1
                  /\ Requests(f, "list_tensorboard_runs") = {}
                  /\ run_name_to_run_resource_name = f.pre_run
                  /\ run_tag_name_to_time_series_name = f.pre_ts
                  /\ ~Cached(RunKey(f.run_name))
                  /\ ~Cached(KeyOf(f))
            /\ (/\ TimeSeriesLevelOver(f)
                /\ OtherFailures(f, "create_tensorboard_time_series") /= {}) =>
                  /\ f.status = "raised"
                  /\ \A i \in OtherFailures(f, "create_tensorboard_time_series") :
                        /\ f.error = f.log[i].raised
                        /\ i = Len(f.log)
                  /\ Cardinality(Requests(f, "create_tensorboard_time_series")) = 1
                  /\ Requests(f, "list_tensorboard_time_series") = {}
                  /\ run_tag_name_to_time_series_name = f.pre_ts
                  /\ tag_to_time_series_proto = f.pre_tag
                  /\ ~Cached(KeyOf(f))

\* A time-series create was refused as an invalid argument, in a call whose
\* run had been resolved through a name conflict and a list.
C17_Witness ==
    \E w \in Workers :
        LET f == frame[w]
        IN  /\ TimeSeriesLevelOver(f)
            /\ f.op = "get_time_series_resource_name"
            /\ Conflicted(f, "create_tensorboard_run")
            /\ \E i \in OtherFailures(f, "create_tensorboard_time_series") :
                  f.log[i].raised = InvalidArgumentOther
            /\ f.error = InvalidArgumentOther

\* C18 (exact-name fallback list): for the run resolver and the time-series
\* resolvers alike, the list request that follows a name conflict has the
\* parent of the failed create and carries the filter that is the equality
\* predicate on the requested display name, so that every resource the
\* resolver goes through to choose the resolved one has that display name.
C18_ExactNameFallbackList ==
    \A w \in Workers :
        LET f == frame[w]
        IN  /\ \A i \in Requests(f, "create_tensorboard_run"),
                  j \in Requests(f, "list_tensorboard_runs") :
                  /\ f.log[j].parent = f.log[i].parent
                  /\ f.log[j].filter = DisplayNameFilter(f.run_name)
            /\ \A n \in 1..Len(f.runs_pages) :
                  f.runs_pages[n].display_name = f.run_name
            /\ \A i \in Requests(f, "create_tensorboard_time_series"),
                  j \in Requests(f, "list_tensorboard_time_series") :
                  /\ f.log[j].parent = f.log[i].parent
                  /\ f.log[j].filter = DisplayNameFilter(f.tag_name)
            /\ \A n \in 1..Len(f.list_of_time_series) :
                  f.list_of_time_series[n].display_name = f.tag_name

\* The resources the service answered a call with, at the level of the
\* call's key (for RunKey: at the run level): created or listed.
AnsweredWith(f, k) ==
    {f.log[i].created : i \in {j \in Requests(f, CreateApi(k)) :
                                   f.log[j].raised = NoException}}
    \cup (IF k.resolver = "get_run_resource_name"
          THEN {f.runs_pages[n] : n \in 1..Len(f.runs_pages)}
          ELSE {f.list_of_time_series[n] : n \in 1..Len(f.list_of_time_series)})

\* C19 (cached references are real): in every reachable state every
\* reference in a cache (run cache, two-level and single-level time-series
\* cache) is a name the service assigned, never the empty name of a local
\* draft; a call that resolved its key by remote calls has returned and
\* cached the name of a resource the service answered it with, from create
\* or from list, whose display name is the logical name of the key.
C19_CachedReferencesAreReal ==
    /\ \A run_name \in DOMAIN run_name_to_run_resource_name :
          run_name_to_run_resource_name[run_name] \in RunIds
    /\ \A key \in DOMAIN run_tag_name_to_time_series_name :
          run_tag_name_to_time_series_name[key] \in TimeSeriesIds
    /\ \A tag_name \in DOMAIN tag_to_time_series_proto :
          /\ tag_to_time_series_proto[tag_name].name \in TimeSeriesIds
          /\ tag_to_time_series_proto[tag_name].display_name = tag_name
    /\ \A w \in Workers :
          LET f == frame[w]
          IN  /\ (RunLevelReturned(f) /\ f.op /= "get_or_create") =>
                    \E r \in AnsweredWith(f, RunKey(f.run_name)) :
                        /\ r.name = RunLevelRef(f)
                        /\ r.display_name = f.run_name
                        /\ Entry(RunKey(f.run_name)) = r.name
              /\ (TimeSeriesLevelOver(f) /\ f.status = "returned") =>
                    \E r \in AnsweredWith(f, KeyOf(f)) :
                        /\ r.name = NameOf(KeyOf(f), f.ret)
                        /\ r.display_name = f.tag_name
                        /\ NameOf(KeyOf(f), Entry(KeyOf(f))) = r.name

\* C20 (two-level cache consistency): in every reachable state of one
\* OnePlatformResourceManager used by one thread, the run of every key
\* (run, tag) of the time-series cache is in the run cache, and a call that
\* has stored the entry of its key got the time series from a create or list
\* request, its last one, whose parent is the reference the run cache holds
\* for the run.
C20_TwoLevelCacheConsistency ==
    /\ \A key \in DOMAIN run_tag_name_to_time_series_name :
          key[1] \in DOMAIN run_name_to_run_resource_name
    /\ \A w \in Workers :
          LET f == frame[w]
          IN  (/\ f.op = "get_time_series_resource_name"
               /\ <<f.run_name, f.tag_name>> \in
                      DOMAIN run_tag_name_to_time_series_name
               /\ <<f.run_name, f.tag_name>> \notin DOMAIN f.pre_ts) =>
                  /\ Over(f) /\ f.status = "returned"
                  /\ f.run_name \in DOMAIN run_name_to_run_resource_name
                  /\ LastRequest(f).api \in TimeSeriesApis
                  /\ LastRequest(f).raised = NoException
                  /\ LastRequest(f).parent = run_name_to_run_resource_name[f.run_name]
                  /\ run_tag_name_to_time_series_name[<<f.run_name, f.tag_name>>]
                        \in {r.name : r \in AnsweredWith(f, KeyOf(f))}

\* Both runs have time series cached; the last was listed under a run that
\* the same call created.
C20_Witness ==
    \E w \in Workers :
        LET f == frame[w]
        IN  /\ f.op = "get_time_series_resource_name"
            /\ Over(f) /\ f.status = "returned"
            /\ Answered(f, "create_tensorboard_run")
            /\ Answered(f, "list_tensorboard_time_series")
            /\ {key[1] : key \in DOMAIN run_tag_name_to_time_series_name} = RunNames
            /\ DOMAIN f.pre_ts /= {}

====
